---- MODULE Spec2Model ----
(***************************************************************************)
(* Model of the Crypto Price Tracker API (src/main.py, src/crud.py,        *)
(* src/models.py).  The persistent store is the only shared state; every   *)
(* HTTP request is served by a worker that runs the handler's database     *)
(* statements one at a time, so that two requests can interleave between   *)
(* a lookup and the write that follows it.                                 *)
(***************************************************************************)
EXTENDS Integers, Sequences, FiniteSets, TLC

\* ---------------------------------------------------------------- bounds
\* Greatest number of rows of price_history.
MaxRows == 2
\* Greatest value of the wall clock (datetime.utcnow) in the model.
MaxClock == 1

\* ------------------------------------------------------- small input sets
Workers == {"w1", "w2"}
Usernames == {"alice", "bob"}
Emails == {"a@x.io", "b@x.io"}
Passwords == {"pw1", "pw2"}
\* The password of a client population that uses a single one.
OnePassword == {CHOOSE p \in Passwords : TRUE}
Prices == {1, 2}
\* coin_id path parameters tried by the clients: two ids a coin can get and
\* one id that is never assigned.
CoinIdArgs == {1, 2, 9}

\* The configured coins: the first two entries of the list in main.py.
COINS ==
    << [name |-> "Bitcoin",  symbol |-> "btc", id |-> "bitcoin"],
       [name |-> "Ethereum", symbol |-> "eth", id |-> "ethereum"] >>

CoinNames == {COINS[i].name : i \in DOMAIN COINS}
\* coin_name path parameters: the configured names and an unknown one.
CoinNameArgs == CoinNames \cup {"Nocoin"}
FeedIds == {COINS[i].id : i \in DOMAIN COINS}

\* ------------------------------------------------------------------ state
VARIABLES
    users,          \* table users: sequence of rows, id = position
    coins,          \* table coins: sequence of rows, id = position
    user_coins,     \* association table user_coins: rows <<user_id, coin_id>> -> count
    price_history,  \* table price_history: sequence of rows, id = position
    now,            \* the wall clock read by datetime.utcnow
    pc,             \* pc[w]: where worker w is in the handler it runs
    req,            \* req[w]: the request worker w serves and its local variables
    response        \* the response of the most recently completed request

vars == <<users, coins, user_coins, price_history, now, pc, req, response>>
db == <<users, coins, user_coins, price_history>>

NoReq == [op |-> "none"]
NoResponse == [op |-> "none", user |-> 0, arg |-> "", status |-> 0, detail |-> "", body |-> <<>>]

\* "count": len(results) of the body of POST /update.
Count(r) == Len(r.body)

\* A response: the request it answers (op, the authenticated user or 0, the
\* path or body argument) and the answer (HTTP status, detail, JSON body).
Response(op, user, arg, st, detail, body) ==
    [op |-> op, user |-> user, arg |-> arg, status |-> st, detail |-> detail, body |-> body]

\* ---------------------------------------------------------------- helpers
Min(a, b) == IF a < b THEN a ELSE b

\* db.query(User).filter(User.username == username).first(): 0 stands for None.
get_user_by_username(username) ==
    IF \E i \in DOMAIN users : users[i].username = username
    THEN CHOOSE i \in DOMAIN users : users[i].username = username
    ELSE 0

\* A register_user that forgets the email lookup.
get_user_by_email_skipped(email) == 0

get_user_by_email(email) ==
    IF \E i \in DOMAIN users : users[i].email = email
    THEN CHOOSE i \in DOMAIN users : users[i].email = email
    ELSE 0

\* db.query(Coin).filter(Coin.name == name).first(): 0 stands for None.
get_coin_by_name(name) ==
    IF \E i \in DOMAIN coins : coins[i].name = name
    THEN CHOOSE i \in DOMAIN coins : coins[i].name = name
    ELSE 0

\* auth.get_password_hash: a one-way digest of the plaintext; the digest is
\* not the plaintext and is told apart from it by its scheme.
get_password_hash(password) == [scheme |-> "hashed", of |-> password]

\* auth.verify_password: the plaintext is the one the digest was made of.
verify_password(password, hashed_password) ==
    hashed_password.scheme = "hashed" /\ hashed_password.of = password

\* Lifetime of a token in clock readings (auth.ACCESS_TOKEN_EXPIRE_MINUTES).
TokenTtl == 1

\* auth.create_access_token: a signed token that names the subject and the
\* absolute expiry now + ttl.
create_access_token(sub, ttl) == [sub |-> sub, exp |-> now + ttl, signed |-> TRUE]

\* unique=True on users.username and users.email.
UserUniqueViolation(username, email) ==
    \E i \in DOMAIN users : users[i].username = username \/ users[i].email = email

\* A coins table without the unique indexes.
CoinUniqueViolation_unindexed(name, symbol) == FALSE

\* unique=True on coins.name and coins.symbol.
CoinUniqueViolation(name, symbol) ==
    \E i \in DOMAIN coins : coins[i].name = name \/ coins[i].symbol = symbol

Idle(w) == pc[w] = "idle"

\* A worker finishes its request with an HTTP answer; the session is closed.
Finish(w, r) ==
    /\ pc' = [pc EXCEPT ![w] = "idle"]
    /\ req' = [req EXCEPT ![w] = NoReq]
    /\ response' = r

Init ==
    /\ users = <<>>
    /\ coins = <<>>
    /\ user_coins = [p \in {} |-> 0]
    /\ price_history = <<>>
    /\ now = 0
    /\ pc = [w \in Workers |-> "idle"]
    /\ req = [w \in Workers |-> NoReq]
    /\ response = NoResponse

\* ------------------------------------------------------- POST /register
\* register_user, first statement: crud.get_user_by_username.
RegisterLookupUsername(w, passwords) ==
    /\ Idle(w)
    /\ \E username \in Usernames, email \in Emails, password \in passwords :
          IF get_user_by_username(username) # 0
          THEN Finish(w, Response("register", 0, [username |-> username, email |-> email], 400,
                                  "Username already registered", <<>>))
          ELSE /\ pc' = [pc EXCEPT ![w] = "reg_email"]
               /\ req' = [req EXCEPT ![w] = [op |-> "register", username |-> username, email |-> email,
                                             password |-> password]]
               /\ UNCHANGED response
    /\ UNCHANGED <<db, now>>

\* register_user, second statement: crud.get_user_by_email.
RegisterLookupEmail(w) ==
    /\ pc[w] = "reg_email"
    /\ IF get_user_by_email(req[w].email) # 0
       THEN Finish(w, Response("register", 0, [username |-> req[w].username, email |-> req[w].email], 400,
                               "Email already registered", <<>>))
       ELSE /\ pc' = [pc EXCEPT ![w] = "reg_insert"]
            /\ UNCHANGED <<req, response>>
    /\ UNCHANGED <<db, now>>

\* crud.create_user: db.add, db.commit.  The unique indexes of the table make
\* the commit raise IntegrityError, which no handler catches: the framework
\* answers 500.
create_user(w) ==
    /\ pc[w] = "reg_insert"
    /\ IF UserUniqueViolation(req[w].username, req[w].email)
       THEN /\ Finish(w, Response("register", 0, [username |-> req[w].username, email |-> req[w].email], 500,
                               "Internal Server Error", <<>>))
            /\ UNCHANGED users
       ELSE /\ users' = Append(users, [username |-> req[w].username, email |-> req[w].email,
                                       hashed_password |-> get_password_hash(req[w].password)])
            /\ Finish(w, Response("register", 0, [username |-> req[w].username, email |-> req[w].email], 200,
                               "", <<>>))
    /\ UNCHANGED <<coins, user_coins, price_history, now>>

\* ----------------------------------------------------------- POST /token
\* An authenticate_user that does not verify the password.
authenticate_user_unverified(username, password) == get_user_by_username(username)

\* crud.authenticate_user: the user's id, or 0 for False.
authenticate_user(username, password) ==
    LET user == get_user_by_username(username) IN
    IF user = 0 THEN 0
    ELSE IF ~verify_password(password, users[user].hashed_password) THEN 0
    ELSE user

\* POST /token: main.login_for_access_token.
login_for_access_token(w) ==
    /\ Idle(w)
    /\ \E username \in Usernames, password \in Passwords :
          LET user == authenticate_user(username, password) IN
          IF user = 0
          THEN Finish(w, Response("login", 0, [username |-> username, password |-> password], 401,
                                  "Incorrect username or password", <<>>))
          ELSE Finish(w, Response("login", user, [username |-> username, password |-> password], 200,
                                  "", <<create_access_token(users[user].username, TokenTtl)>>))
    /\ UNCHANGED <<db, now>>

\* ------------------------------------------------------- bearer tokens
\* A request without an Authorization header.
NoToken == [sub |-> "", exp |-> 0, signed |-> FALSE]

\* The tokens of clients that logged in just now: signed, not expired, one
\* for each registered user.
GoodTokens == {create_access_token(users[i].username, TokenTtl) : i \in DOMAIN users}

\* The tokens a client can send: none, a token it forged for any username, or
\* a token the server signed for a registered user at some clock reading up
\* to now.
ClientTokens ==
    {NoToken}
    \cup {[sub |-> u, exp |-> now + TokenTtl, signed |-> FALSE] : u \in Usernames}
    \cup {[sub |-> users[i].username, exp |-> t + TokenTtl, signed |-> TRUE] :
              i \in DOMAIN users, t \in 0..now}

\* auth.get_current_user: the signature is checked first, then the expiry,
\* then the subject is looked up; 0 stands for the 401 the dependency raises.
get_current_user(token) ==
    IF ~token.signed THEN 0
    ELSE IF token.exp <= now THEN 0
    ELSE get_user_by_username(token.sub)

\* A response to a request of an endpoint that depends on get_current_user:
\* it also names the token the request carried.
AuthResponse(op, token, user, arg, st, detail, body) ==
    [op |-> op, token |-> token, user |-> user, arg |-> arg, status |-> st, detail |-> detail,
     body |-> body]

\* The 401 of the dependency; the handler does not run.
Unauthorized(op, token, arg) ==
    AuthResponse(op, token, 0, arg, 401, "Could not validate credentials", <<>>)

\* GET /users/me: main.read_users_me.
read_users_me(w, tokens) ==
    /\ Idle(w)
    /\ \E token \in tokens :
          LET user_id == get_current_user(token) IN
          IF user_id = 0
          THEN Finish(w, Unauthorized("me", token, ""))
          ELSE Finish(w, AuthResponse("me", token, user_id, "", 200, "",
                         <<[id |-> user_id, username |-> users[user_id].username,
                            email |-> users[user_id].email]>>))
    /\ UNCHANGED <<db, now>>

\* ------------------------------------------------- watchlist (user_coins)
\* Number of rows of user_coins for the pair.
Rows(user_id, coin_id) ==
    IF <<user_id, coin_id>> \in DOMAIN user_coins THEN user_coins[<<user_id, coin_id>>] ELSE 0

\* user.coins: the collection the relationship loads for a user.
UserCoins(user_id) == {c \in DOMAIN coins : Rows(user_id, c) > 0}

\* A flush that inserts a row for every append.
AppendFlush_always(user_id, coin_id, loaded) ==
    [p \in DOMAIN user_coins \cup {<<user_id, coin_id>>} |->
        IF p = <<user_id, coin_id>> THEN Rows(user_id, coin_id) + 1 ELSE user_coins[p]]

\* db.commit() after user.coins.append(coin).  The unit of work inserts a row
\* for each member of the collection that was not in it when it was loaded
\* (loaded: the number of rows of the pair the load saw); appending a coin the
\* collection already held changes no row.
AppendFlush(user_id, coin_id, loaded) ==
    IF loaded > 0
    THEN user_coins
    ELSE [p \in DOMAIN user_coins \cup {<<user_id, coin_id>>} |->
             IF p = <<user_id, coin_id>> THEN Rows(user_id, coin_id) + 1 ELSE user_coins[p]]

\* A DELETE that names the coin only: it removes the coin from every watchlist.
RemoveFlush_by_coin(user_id, coin_id) ==
    [p \in {q \in DOMAIN user_coins : q[2] # coin_id} |-> user_coins[p]]

\* db.commit() after user.coins.remove(coin): DELETE FROM user_coins WHERE
\* user_id = ? AND coin_id = ?, issued when the coin left the collection.
RemoveFlush(user_id, coin_id) ==
    [p \in DOMAIN user_coins \ {<<user_id, coin_id>>} |-> user_coins[p]]

\* GET /users/coins: main.get_user_coins returns current_user.coins.
get_user_coins(w, tokens) ==
    /\ Idle(w)
    /\ \E token \in tokens :
          LET user_id == get_current_user(token)
              ids == SelectSeq([c \in 1..Len(coins) |-> c], LAMBDA c : Rows(user_id, c) > 0)
          IN
          IF user_id = 0
          THEN Finish(w, Unauthorized("user_coins", token, ""))
          ELSE Finish(w, AuthResponse("user_coins", token, user_id, "", 200, "",
                         [k \in 1..Len(ids) |-> [id |-> ids[k], name |-> coins[ids[k]].name,
                                                 symbol |-> coins[ids[k]].symbol]]))
    /\ UNCHANGED <<db, now>>

\* AddCoinLoad without the get_current_user dependency: the caller is whoever
\* the token names.
AddCoinLoad_unverified(w, tokens) ==
    /\ Idle(w)
    /\ \E token \in tokens, coin_id \in CoinIdArgs :
          LET user_id == get_user_by_username(token.sub) IN
          IF user_id = 0
          THEN Finish(w, Unauthorized("add_coin", token, coin_id))
          ELSE IF coin_id \notin DOMAIN coins
          THEN Finish(w, AuthResponse("add_coin", token, user_id, coin_id, 404, "Coin not found", <<>>))
          ELSE /\ pc' = [pc EXCEPT ![w] = "add_commit"]
               /\ req' = [req EXCEPT ![w] = [op |-> "add_coin", token |-> token, user_id |-> user_id,
                                             coin_id |-> coin_id, loaded |-> Rows(user_id, coin_id)]]
               /\ UNCHANGED response
    /\ UNCHANGED <<db, now>>

\* POST /users/coins/{coin_id}: main.add_coin_to_user and the queries of
\* crud.add_coin_to_user.  current_user is the user the bearer token resolved
\* to.  The access to user.coins loads the collection.
AddCoinLoad(w, tokens) ==
    /\ Idle(w)
    /\ \E token \in tokens, coin_id \in CoinIdArgs :
          LET user_id == get_current_user(token) IN
          IF user_id = 0
          THEN Finish(w, Unauthorized("add_coin", token, coin_id))
          ELSE IF coin_id \notin DOMAIN coins
          THEN Finish(w, AuthResponse("add_coin", token, user_id, coin_id, 404, "Coin not found", <<>>))
          ELSE /\ pc' = [pc EXCEPT ![w] = "add_commit"]
               /\ req' = [req EXCEPT ![w] = [op |-> "add_coin", token |-> token, user_id |-> user_id,
                                             coin_id |-> coin_id, loaded |-> Rows(user_id, coin_id)]]
               /\ UNCHANGED response
    /\ UNCHANGED <<db, now>>

\* crud.add_coin_to_user: user.coins.append(coin); db.commit().
add_coin_to_user(w) ==
    /\ pc[w] = "add_commit"
    /\ user_coins' = AppendFlush(req[w].user_id, req[w].coin_id, req[w].loaded)
    /\ Finish(w, AuthResponse("add_coin", req[w].token, req[w].user_id, req[w].coin_id, 200,
                          "Coin added to user's tracking list", <<>>))
    /\ UNCHANGED <<users, coins, price_history, now>>

\* DELETE /users/coins/{coin_id}: main.remove_coin_from_user and the queries of
\* crud.remove_coin_from_user.  list.remove raises ValueError when the coin is
\* not in user.coins; nothing catches it and the framework answers 500.
RemoveCoinLoad(w, tokens) ==
    /\ Idle(w)
    /\ \E token \in tokens, coin_id \in CoinIdArgs :
          LET user_id == get_current_user(token) IN
          IF user_id = 0
          THEN Finish(w, Unauthorized("remove_coin", token, coin_id))
          ELSE IF coin_id \notin DOMAIN coins
          THEN Finish(w, AuthResponse("remove_coin", token, user_id, coin_id, 404,
                                  "Coin not found or not in user's tracking list", <<>>))
          ELSE IF coin_id \notin UserCoins(user_id)
          THEN Finish(w, AuthResponse("remove_coin", token, user_id, coin_id, 500, "Internal Server Error", <<>>))
          ELSE /\ pc' = [pc EXCEPT ![w] = "remove_commit"]
               /\ req' = [req EXCEPT ![w] = [op |-> "remove_coin", token |-> token, user_id |-> user_id,
                                             coin_id |-> coin_id, loaded |-> Rows(user_id, coin_id)]]
               /\ UNCHANGED response
    /\ UNCHANGED <<db, now>>

\* crud.remove_coin_from_user: user.coins.remove(coin); db.commit().  A
\* collection that held the coin twice still holds it after list.remove, so
\* nothing is deleted; otherwise the DELETE must match exactly one row or the
\* commit raises StaleDataError (500).
remove_coin_from_user(w) ==
    /\ pc[w] = "remove_commit"
    /\ IF req[w].loaded > 1
       THEN /\ UNCHANGED user_coins
            /\ Finish(w, AuthResponse("remove_coin", req[w].token, req[w].user_id, req[w].coin_id, 200,
                                  "Coin removed from user's tracking list", <<>>))
       ELSE IF Rows(req[w].user_id, req[w].coin_id) # 1
       THEN /\ UNCHANGED user_coins
            /\ Finish(w, AuthResponse("remove_coin", req[w].token, req[w].user_id, req[w].coin_id, 500,
                                  "Internal Server Error", <<>>))
       ELSE /\ user_coins' = RemoveFlush(req[w].user_id, req[w].coin_id)
            /\ Finish(w, AuthResponse("remove_coin", req[w].token, req[w].user_id, req[w].coin_id, 200,
                                  "Coin removed from user's tracking list", <<>>))
    /\ UNCHANGED <<users, coins, price_history, now>>

\* ---------------------------------------------------------- POST /update
\* What the feed's mapping holds for one coin: no entry (prices.get gives {}),
\* an entry without the key "usd", or an entry with a usd price.
FeedEntries ==
    {[kind |-> "absent", usd |-> 0], [kind |-> "nousd", usd |-> 0]}
    \cup {[kind |-> "usd", usd |-> p] : p \in Prices}

\* Outcomes of requests.get: a 200 response with a JSON mapping, a response
\* with another status, or an exception (connection error, timeout).
NoPrices == [c \in FeedIds |-> [kind |-> "absent", usd |-> 0]]

FeedOutcomes ==
    {[kind |-> "ok", code |-> 200, prices |-> b] : b \in [FeedIds -> FeedEntries]}
    \cup {[kind |-> "http", code |-> c, prices |-> NoPrices] : c \in {429, 503}}
    \cup {[kind |-> "raise", code |-> 0, prices |-> NoPrices]}

\* An update_prices without "except HTTPException: raise": the 502 is caught
\* by "except Exception".
UpstreamStatus_swallowed(feed) ==
    IF feed.kind = "raise" \/ feed.code # 200 THEN 500 ELSE 200

\* The status update_prices answers before it reads the body: 500 when
\* requests.get raised (except Exception), 502 when the feed's status is not
\* 200 (the HTTPException is re-raised), 200 to go on.
UpstreamStatus(feed) ==
    IF feed.kind = "raise" THEN 500
    ELSE IF feed.code # 200 THEN 502
    ELSE 200

\* The 200 responses that hold, for each coin, no entry or one fixed price.
PlainFeeds ==
    {f \in FeedOutcomes :
        /\ f.kind = "ok"
        /\ \A c \in FeedIds : f.prices[c].kind = "usd" => \A p \in Prices : f.prices[c].usd <= p}

\* The plain responses that price exactly one coin.
SingleFeeds ==
    {f \in PlainFeeds : \E c \in FeedIds : \A d \in FeedIds : f.prices[d].kind = "usd" <=> d = c}

\* The plain response that prices the first configured coin only.
BitcoinFeeds == {f \in SingleFeeds : f.prices[COINS[1].id].kind = "usd"}

\* A loop that only skips the coins without an entry.
Priced_nonempty(prices, i) == prices[COINS[i].id].kind # "absent"

\* price_data is non-empty and has the key "usd" (main.py line 149).
Priced(prices, i) == prices[COINS[i].id].kind = "usd"

PricedFrom(prices, i) == {j \in i..Len(COINS) : Priced(prices, j)}

\* The loop of update_prices skips (continue) to the next priced coin.
NextPriced(prices, i) ==
    IF PricedFrom(prices, i) = {} THEN Len(COINS) + 1
    ELSE CHOOSE j \in PricedFrom(prices, i) : \A k \in PricedFrom(prices, i) : j <= k

\* Rows the syncs in flight will still append.
Pending(w) == IF req[w].op = "update" THEN Cardinality(PricedFrom(req[w].feed.prices, req[w].i)) ELSE 0

RECURSIVE SumPending(_)
SumPending(S) == IF S = {} THEN 0 ELSE LET w == CHOOSE x \in S : TRUE IN Pending(w) + SumPending(S \ {w})

UpdateOk(w, feed, base, results) ==
    Finish(w, Response("update", 0, [feed |-> feed, base |-> base], 200, "success", results))

UpdateFailed(w, feed, base, code, detail) ==
    Finish(w, Response("update", 0, [feed |-> feed, base |-> base], code, detail, <<>>))

\* update_prices up to the start of the loop: the request to the feed, the
\* status check and response.json().
update_prices(w, feeds) ==
    /\ Idle(w)
    /\ \E feed \in feeds :
          IF UpstreamStatus(feed) = 500
          THEN UpdateFailed(w, feed, Len(price_history), 500, "An error occurred while updating prices")
          ELSE IF UpstreamStatus(feed) = 502
          THEN UpdateFailed(w, feed, Len(price_history), 502, "Failed to fetch from CoinGecko")
          ELSE /\ Len(price_history) + SumPending(Workers) + Cardinality(PricedFrom(feed.prices, 1)) <= MaxRows
               /\ IF PricedFrom(feed.prices, 1) = {}
                  THEN UpdateOk(w, feed, Len(price_history), <<>>)
                  ELSE /\ pc' = [pc EXCEPT ![w] = "upd_lookup"]
                       /\ req' = [req EXCEPT ![w] = [op |-> "update", feed |-> feed,
                                     base |-> Len(price_history), i |-> NextPriced(feed.prices, 1),
                                     db_coin |-> 0, results |-> <<>>]]
                       /\ UNCHANGED response
    /\ UNCHANGED <<db, now>>

\* Loop body: db_coin = crud.get_coin_by_name(db, name).
UpdateLookupCoin(w) ==
    /\ pc[w] = "upd_lookup"
    /\ LET db_coin == get_coin_by_name(COINS[req[w].i].name) IN
          /\ req' = [req EXCEPT ![w].db_coin = db_coin]
          /\ pc' = [pc EXCEPT ![w] = IF db_coin = 0 THEN "upd_create" ELSE "upd_add"]
    /\ UNCHANGED <<db, now, response>>

\* crud.create_coin: db.add, db.commit.  A violated unique index raises
\* IntegrityError, which the handler's "except Exception" turns into 500.
create_coin(w) ==
    /\ pc[w] = "upd_create"
    /\ LET c == COINS[req[w].i] IN
          IF CoinUniqueViolation(c.name, c.symbol)
          THEN /\ UpdateFailed(w, req[w].feed, req[w].base, 500, "An error occurred while updating prices")
               /\ UNCHANGED coins
          ELSE /\ coins' = Append(coins, [name |-> c.name, symbol |-> c.symbol])
               /\ req' = [req EXCEPT ![w].db_coin = Len(coins) + 1]
               /\ pc' = [pc EXCEPT ![w] = "upd_add"]
               /\ UNCHANGED response
    /\ UNCHANGED <<users, user_coins, price_history, now>>

\* An add_price that keeps one row per coin: it overwrites the coin's row.
InsertPrice_upsert(rows, row) ==
    IF \E r \in DOMAIN rows : rows[r].coin_id = row.coin_id
    THEN [r \in DOMAIN rows |-> IF rows[r].coin_id = row.coin_id THEN row ELSE rows[r]]
    ELSE Append(rows, row)

\* db.add(db_price); db.commit() of crud.add_price: one INSERT.
InsertPrice(rows, row) == Append(rows, row)

\* crud.add_price: the row is stamped by the column default datetime.utcnow;
\* the clock has not gone back since the last row and may not have advanced.
\* Then the result entry is appended and the loop goes on.
add_price(w) ==
    /\ pc[w] = "upd_add"
    /\ \E t \in now..Min(now + 1, MaxClock) :
          LET c == COINS[req[w].i]
              price == req[w].feed.prices[c.id].usd
              results == Append(req[w].results,
                                [name |-> c.name, symbol |-> c.symbol, price |-> price, timestamp |-> t])
              i == NextPriced(req[w].feed.prices, req[w].i + 1)
          IN  /\ now' = t
              /\ price_history' = InsertPrice(price_history,
                                              [coin_id |-> req[w].db_coin, price |-> price, timestamp |-> t])
              /\ IF i > Len(COINS)
                 THEN UpdateOk(w, req[w].feed, req[w].base, results)
                 ELSE /\ req' = [req EXCEPT ![w].i = i, ![w].results = results, ![w].db_coin = 0]
                      /\ pc' = [pc EXCEPT ![w] = "upd_lookup"]
                      /\ UNCHANGED response
    /\ UNCHANGED <<users, coins, user_coins>>

\* ------------------------------------------------------------ price reads
CoinRows(coin_id) == {r \in DOMAIN price_history : price_history[r].coin_id = coin_id}

\* The rows that .order_by(PriceHistory.timestamp.desc()).first() can return:
\* the query names no second sort key, so any row of the coin with the
\* greatest timestamp can come first.
LatestCandidates(coin_id) ==
    {r \in CoinRows(coin_id) :
        \A q \in CoinRows(coin_id) : price_history[q].timestamp <= price_history[r].timestamp}

\* A query ordered by the timestamp ascending.
HistoryOrders_ascending(coin_id) ==
    LET n == Cardinality({r \in DOMAIN price_history : price_history[r].coin_id = coin_id}) IN
    {s \in [1..n -> {r \in DOMAIN price_history : price_history[r].coin_id = coin_id}] :
        /\ \A j, k \in 1..n : j # k => s[j] # s[k]
        /\ \A k \in 1..(n - 1) : price_history[s[k]].timestamp <= price_history[s[k + 1]].timestamp}

\* The results .order_by(PriceHistory.timestamp.desc()).all() can return: the
\* rows of the coin in any order that is non-increasing in the timestamp.
HistoryOrders(coin_id) ==
    LET n == Cardinality(CoinRows(coin_id)) IN
    {s \in [1..n -> CoinRows(coin_id)] :
        /\ \A j, k \in 1..n : j # k => s[j] # s[k]
        /\ \A k \in 1..(n - 1) : price_history[s[k]].timestamp >= price_history[s[k + 1]].timestamp}

\* A PriceHistory row as the API serialises it.
HistoryBody(s) ==
    [k \in DOMAIN s |-> [id |-> s[k], coin_id |-> price_history[s[k]].coin_id,
                         price |-> price_history[s[k]].price,
                         timestamp |-> price_history[s[k]].timestamp]]

\* The list crud.get_latest_prices builds, given the row each per-coin query
\* returned (0: no row).
LatestBody(latest) ==
    LET ids == SelectSeq([c \in 1..Len(coins) |-> c], LAMBDA c : latest[c] # 0) IN
    [k \in 1..Len(ids) |->
        [name |-> coins[ids[k]].name, symbol |-> coins[ids[k]].symbol,
         price |-> price_history[latest[ids[k]]].price,
         timestamp |-> price_history[latest[ids[k]]].timestamp]]

\* GET /prices: main.get_latest_prices and crud.get_latest_prices.
get_latest_prices(w) ==
    /\ Idle(w)
    /\ \E latest \in [DOMAIN coins -> 0..Len(price_history)] :
          /\ \A c \in DOMAIN coins :
                IF CoinRows(c) = {} THEN latest[c] = 0 ELSE latest[c] \in LatestCandidates(c)
          /\ Finish(w, Response("latest_prices", 0, "", 200, "", LatestBody(latest)))
    /\ UNCHANGED <<db, now>>

\* GET /prices/{coin_name}: main.get_price_history and crud.get_price_history.
get_price_history(w) ==
    /\ Idle(w)
    /\ \E coin_name \in CoinNameArgs :
          LET coin == get_coin_by_name(coin_name) IN
          IF coin = 0 \/ CoinRows(coin) = {}
          THEN Finish(w, Response("price_history", 0, coin_name, 404,
                                  "Coin not found or no price history", <<>>))
          ELSE \E s \in HistoryOrders(coin) :
                  Finish(w, Response("price_history", 0, coin_name, 200, "", HistoryBody(s)))
    /\ UNCHANGED <<db, now>>

\* A get_user_price_history without the watchlist check.
Tracks_unchecked(user_id, coin) == TRUE

\* "coin not in user.coins" of crud.get_user_price_history, negated.
Tracks(user_id, coin) == coin \in UserCoins(user_id)

\* GET /users/prices/{coin_name}: main.get_user_price_history and
\* crud.get_user_price_history.  current_user is the user the bearer token
\* resolved to.
get_user_price_history(w, tokens) ==
    /\ Idle(w)
    /\ \E token \in tokens, coin_name \in CoinNameArgs :
          LET user_id == get_current_user(token)
              coin == get_coin_by_name(coin_name)
          IN
          IF user_id = 0
          THEN Finish(w, Unauthorized("user_price_history", token, coin_name))
          ELSE IF coin = 0 \/ ~Tracks(user_id, coin) \/ CoinRows(coin) = {}
          THEN Finish(w, AuthResponse("user_price_history", token, user_id, coin_name, 404,
                                  "Coin not found, not tracked by user, or no price history", <<>>))
          ELSE \E s \in HistoryOrders(coin) :
                  Finish(w, AuthResponse("user_price_history", token, user_id, coin_name, 200, "", HistoryBody(s)))
    /\ UNCHANGED <<db, now>>

\* ------------------------------------------------------ specifications
\* The steps of a worker serving requests of the account endpoints.
Account(w, passwords) ==
    \/ RegisterLookupUsername(w, passwords)
    \/ RegisterLookupEmail(w)
    \/ create_user(w)

\* The steps of a worker serving requests of the watchlist endpoints.
Watchlist(w, tokens) ==
    \/ AddCoinLoad(w, tokens)
    \/ add_coin_to_user(w)
    \/ RemoveCoinLoad(w, tokens)
    \/ remove_coin_from_user(w)
    \/ get_user_price_history(w, tokens)

\* The steps of a worker serving the reads of the caller's own data.
Profile(w, tokens) ==
    \/ read_users_me(w, tokens)
    \/ get_user_coins(w, tokens)

\* The steps of a worker serving POST /update, the feed answering with one of
\* feeds.
Sync(w, feeds) ==
    \/ update_prices(w, feeds)
    \/ UpdateLookupCoin(w)
    \/ create_coin(w)
    \/ add_price(w)

\* The steps of a worker serving requests of the public price endpoints.
Ledger(w) ==
    \/ Sync(w, FeedOutcomes)
    \/ get_latest_prices(w)
    \/ get_price_history(w)

\* The worker of a server that serves one request after the other.
TheWorker == CHOOSE w \in Workers : TRUE

Next == \E w \in Workers : Account(w, OnePassword) \/ Watchlist(w, GoodTokens) \/ Sync(w, PlainFeeds)
SeqNext == Account(TheWorker, OnePassword) \/ Watchlist(TheWorker, GoodTokens) \/ Sync(TheWorker, PlainFeeds)
AccountNext == \E w \in Workers : Account(w, OnePassword)
AuthNext == \E w \in Workers : Account(w, Passwords) \/ login_for_access_token(w)
LedgerNext == \E w \in Workers : Ledger(w)
LedgerSeqNext == Ledger(TheWorker)
MixNext ==
    \E w \in Workers :
        \/ Account(w, OnePassword)
        \/ AddCoinLoad(w, GoodTokens)
        \/ add_coin_to_user(w)
        \/ RemoveCoinLoad(w, GoodTokens)
        \/ remove_coin_from_user(w)
        \/ Sync(w, BitcoinFeeds)
GateNext ==
    \/ Account(TheWorker, OnePassword)
    \/ login_for_access_token(TheWorker)
    \/ Watchlist(TheWorker, ClientTokens)
    \/ Profile(TheWorker, ClientTokens)
    \/ Sync(TheWorker, BitcoinFeeds)
    \/ get_latest_prices(TheWorker)
    \/ get_price_history(TheWorker)

\* Registrations, watchlist requests and syncs, interleaved at their database
\* statements.
Spec == Init /\ [][Next]_vars

\* Registrations, watchlist requests and syncs, served one after the other.
SeqSpec == Init /\ [][SeqNext]_vars

\* Registrations, interleaved.
AccountSpec == Init /\ [][AccountNext]_vars

\* Registrations and logins, interleaved.
AuthSpec == Init /\ [][AuthNext]_vars

\* Price syncs and price reads, interleaved and one after the other.
LedgerSpec == Init /\ [][LedgerNext]_vars
LedgerSeqSpec == Init /\ [][LedgerSeqNext]_vars

\* Registrations, watchlist changes and syncs of the first coin, interleaved.
MixSpec == Init /\ [][MixNext]_vars

\* Every endpoint, served one after the other, the protected ones with every
\* token a client can send.
GateSpec == Init /\ [][GateNext]_vars

\* ------------------------------------------------------------------ claims
\* The step completes a request of worker w: w ends idle, and either it was
\* in a handler or a handler of one step wrote a new response.
Done(w) ==
    /\ pc'[w] = "idle"
    /\ \/ pc[w] # "idle"
       \/ response'.op # response.op
       \/ response' # response

\* The step completes a request to the endpoint op and answers it.
Answers(op) == response'.op = op /\ \E w \in Workers : Done(w)

\* C1: served one after the other, every POST /users/coins/{coin_id} for an
\* existing coin is answered 200 and leaves exactly one row of user_coins for
\* the pair, whether or not the pair was there before.
C1_AddIdempotent ==
    [][Answers("add_coin") /\ response'.arg \in DOMAIN coins =>
          /\ response'.status = 200
          /\ <<response'.user, response'.arg>> \in DOMAIN user_coins'
          /\ user_coins'[<<response'.user, response'.arg>>] = 1]_vars

\* C1 witness: a user adds a coin again; the previous request, answered 200,
\* added the same pair, which the second request found in the collection.
C1_Witness ==
    \E w \in Workers :
       /\ pc[w] = "add_commit"
       /\ req[w].loaded = 1
       /\ response.op = "add_coin"
       /\ response.status = 200
       /\ response.user = req[w].user_id
       /\ response.arg = req[w].coin_id

\* C2: a DELETE /users/coins/{coin_id} for a pair that is not in user_coins
\* (the coin exists and was never added, or the coin id is unknown) is
\* answered 404 and leaves user_coins unchanged.
C2_RemoveAbsentIsNotFound ==
    [][Answers("remove_coin") /\ Rows(response'.user, response'.arg) = 0 =>
          /\ response'.status = 404
          /\ user_coins' = user_coins]_vars

\* C3: served one after the other, a registration whose username or email is
\* that of a persisted user is answered 400 and leaves the users unchanged; a
\* registration whose username and email are both new is answered 200 and
\* persists exactly one new user; no other step changes the users.
C3_SequentialRegistration ==
    [][ /\ Answers("register") =>
              IF UserUniqueViolation(response'.arg.username, response'.arg.email)
              THEN response'.status = 400 /\ users' = users
              ELSE /\ response'.status = 200
                   /\ Len(users') = Len(users) + 1
                   /\ SubSeq(users', 1, Len(users)) = users
                   /\ users'[Len(users')].username = response'.arg.username
                   /\ users'[Len(users')].email = response'.arg.email
        /\ users' # users => Answers("register") /\ response'.status = 200 ]_vars

\* C3 witness: a registration with a new username and a taken email was
\* rejected.
C3_Witness ==
    /\ response.op = "register"
    /\ response.status = 400
    /\ response.detail = "Email already registered"
    /\ get_user_by_username(response.arg.username) = 0
    /\ get_user_by_email(response.arg.email) # 0

\* C4: when registrations with the same username or email are processed
\* concurrently, every one of them is answered with success or with the
\* duplicate-resource error (400), and no two persisted users share a username
\* or an email.
C4_ConcurrentRegistration ==
    /\ response.op = "register" => response.status \in {200, 400}
    /\ \A i, j \in DOMAIN users :
          i # j => users[i].username # users[j].username /\ users[i].email # users[j].email

\* C5: a POST /update that the feed answers with a status other than 200 is
\* answered 502 in one step that writes nothing: users, coins, user_coins and
\* price_history are the same before and after.
C5_FeedStatusFailure ==
    [][Answers("update") /\ response'.arg.feed.kind = "http" =>
          /\ response'.status = 502
          /\ db' = db
          /\ pc' = pc]_vars

\* C5 witness: a sync was answered 502 when the ledger already held rows.
C5_Witness ==
    /\ response.op = "update"
    /\ response.arg.feed.kind = "http"
    /\ response.status = 502
    /\ Len(price_history) > 0
    /\ Len(price_history) = response.arg.base

\* C6: a POST /update whose request to the feed raises is answered 502 and
\* writes no coin and no price row.
C6_FeedUnreachable ==
    [][Answers("update") /\ response'.arg.feed.kind = "raise" =>
          /\ response'.status = 502
          /\ coins' = coins
          /\ price_history' = price_history]_vars

\* The configured coins the feed's mapping prices, in the order of COINS.
PricedCoins(prices) ==
    SelectSeq([i \in DOMAIN COINS |-> i], LAMBDA i : prices[COINS[i].id].kind = "usd")

\* C7: served one after the other, a sync the feed answers with a 200 mapping
\* is answered 200; it appends, after the rows the ledger held when it
\* started, exactly one row for each configured coin the mapping prices, with
\* that price, and none for another coin; the returned list names exactly
\* these coins and the count is their number; and no step changes or removes
\* a row the ledger holds, so every such sync adds its rows whatever earlier
\* syncs added.
C7_SyncAppendsPricedCoins ==
    [][ /\ Answers("update") /\ response'.arg.feed.kind = "ok" =>
              LET prices == response'.arg.feed.prices
                  base == response'.arg.base
                  P == PricedCoins(prices)
              IN  /\ response'.status = 200
                  /\ Count(response') = Len(P)
                  /\ Len(price_history') = base + Len(P)
                  /\ \A k \in 1..Len(P) :
                        LET row == price_history'[base + k] IN
                        /\ row.coin_id \in DOMAIN coins'
                        /\ coins'[row.coin_id].name = COINS[P[k]].name
                        /\ row.price = prices[COINS[P[k]].id].usd
                        /\ response'.body[k] =
                              [name |-> COINS[P[k]].name, symbol |-> COINS[P[k]].symbol,
                               price |-> row.price, timestamp |-> row.timestamp]
        /\ Len(price_history') >= Len(price_history)
        /\ SubSeq(price_history', 1, Len(price_history)) = price_history ]_vars

\* C7 witness: a sync that started on a ledger with rows got a mapping that
\* prices one coin and holds an entry without "usd" for the other; it was
\* answered with count 1, and the coin it priced has an earlier row.
C7_Witness ==
    /\ response.op = "update"
    /\ response.status = 200
    /\ response.arg.base > 0
    /\ \E c \in FeedIds : response.arg.feed.prices[c].kind = "nousd"
    /\ Count(response) = 1
    /\ Len(price_history) = response.arg.base + 1
    /\ \E r \in 1..response.arg.base :
          price_history[r].coin_id = price_history[Len(price_history)].coin_id

\* The greatest element of a non-empty set of row ids.
MaxId(S) == CHOOSE r \in S : \A q \in S : q <= r

\* C8: GET /prices reports, for each coin that has rows, the price and the
\* timestamp of the row with the greatest timestamp and, among the rows with
\* that timestamp, the greatest id; a coin without rows is not listed.
C8_LatestIsLastInserted ==
    [][Answers("latest_prices") =>
          LET ids == SelectSeq([c \in 1..Len(coins) |-> c], LAMBDA c : CoinRows(c) # {}) IN
          /\ response'.status = 200
          /\ Len(response'.body) = Len(ids)
          /\ \A k \in 1..Len(ids) :
                LET row == price_history[MaxId(LatestCandidates(ids[k]))] IN
                response'.body[k] = [name |-> coins[ids[k]].name, symbol |-> coins[ids[k]].symbol,
                                     price |-> row.price, timestamp |-> row.timestamp]]_vars

\* C9: GET /prices/{coin_name} is answered 404 when no coin has the name or
\* the coin has no row; otherwise it is answered 200 with every row of the
\* coin exactly once and no row of another coin, in non-increasing order of
\* timestamp, the first with the timestamp of the rows GET /prices can
\* report for the coin.
C9_HistoryNewestFirst ==
    [][Answers("price_history") =>
          LET coin == get_coin_by_name(response'.arg)
              body == response'.body
          IN  IF coin = 0 \/ CoinRows(coin) = {}
              THEN response'.status = 404 /\ body = <<>>
              ELSE /\ response'.status = 200
                   /\ {body[k].id : k \in DOMAIN body} = CoinRows(coin)
                   /\ Len(body) = Cardinality(CoinRows(coin))
                   /\ \A k \in DOMAIN body :
                         /\ body[k].coin_id = coin
                         /\ body[k].price = price_history[body[k].id].price
                         /\ body[k].timestamp = price_history[body[k].id].timestamp
                   /\ \A k \in 1..(Len(body) - 1) : body[k].timestamp >= body[k + 1].timestamp
                   /\ \A r \in LatestCandidates(coin) :
                         body[1].timestamp = price_history[r].timestamp]_vars

\* C9 witness: the history of a coin with two rows of different timestamps
\* was answered, while another coin has a row too.
C9_Witness ==
    /\ response.op = "price_history"
    /\ response.status = 200
    /\ Len(response.body) = 2
    /\ response.body[1].timestamp > response.body[2].timestamp
    /\ Len(price_history) = 2
    /\ price_history[1].coin_id = price_history[2].coin_id

\* C10: served one after the other, GET /users/prices/{coin_name} is answered
\* 200 with the rows of the coin exactly when the coin exists, is in the
\* caller's user.coins at that moment and has rows; in every other case,
\* also for a coin with rows that the caller does not track or no longer
\* tracks, it is answered 404 with one and the same detail and an empty
\* body.
C10_ScopedHistory ==
    [][Answers("user_price_history") =>
          LET coin == get_coin_by_name(response'.arg)
              body == response'.body
          IN  IF coin # 0 /\ Rows(response'.user, coin) > 0 /\ CoinRows(coin) # {}
              THEN /\ response'.status = 200
                   /\ {body[k].id : k \in DOMAIN body} = CoinRows(coin)
                   /\ Len(body) = Cardinality(CoinRows(coin))
              ELSE /\ response'.status = 404
                   /\ response'.detail = "Coin not found, not tracked by user, or no price history"
                   /\ body = <<>>]_vars

\* C10 witness: a user was answered 404 for a coin that has rows and that the
\* user does not track, while another user tracks it.
C10_Witness ==
    /\ response.op = "user_price_history"
    /\ response.status = 404
    /\ LET coin == get_coin_by_name(response.arg) IN
          /\ coin # 0
          /\ CoinRows(coin) # {}
          /\ Rows(response.user, coin) = 0
          /\ \E u \in DOMAIN users : Rows(u, coin) > 0

\* C11: POST /token is answered 200 with a token for the user exactly when a
\* user has the username and the password is the one the stored digest was
\* made of; for an unknown username and for a wrong password alike it is
\* answered 401 with the same detail and without a token; and a login,
\* failed or not, writes nothing.
C11_Authenticate ==
    [][Answers("login") =>
          /\ db' = db
          /\ IF \E i \in DOMAIN users :
                    /\ users[i].username = response'.arg.username
                    /\ users[i].hashed_password.of = response'.arg.password
             THEN /\ response'.status = 200
                  /\ response'.user # 0
                  /\ users[response'.user].username = response'.arg.username
                  /\ Len(response'.body) = 1
                  /\ response'.body[1].sub = response'.arg.username
                  /\ response'.body[1].signed
             ELSE /\ response'.status = 401
                  /\ response'.user = 0
                  /\ response'.detail = "Incorrect username or password"
                  /\ response'.body = <<>>]_vars

\* C11 witness: a login with the username of a registered user and a
\* password that is not theirs was answered 401.
C11_Witness ==
    /\ response.op = "login"
    /\ response.status = 401
    /\ get_user_by_username(response.arg.username) # 0
    /\ users[get_user_by_username(response.arg.username)].hashed_password.of # response.arg.password
    /\ \E u \in Usernames : get_user_by_username(u) = 0

\* The endpoints that depend on get_current_user, and those that do not.
Protected == {"me", "user_coins", "add_coin", "remove_coin", "user_price_history"}
Anonymous == {"register", "login", "latest_prices", "price_history", "update"}

\* C12: a request to a protected endpoint whose token does not verify to an
\* existing user is answered 401 and changes nothing; one that is answered
\* 200 acted for the user its token verifies to; only an add or a remove with
\* such a token changes user_coins; the other endpoints never answer with the
\* 401 of the token check.
C12_Gating ==
    [][/\ \A op \in Protected : Answers(op) =>
             IF get_current_user(response'.token) = 0
             THEN response'.status = 401 /\ response'.user = 0 /\ db' = db
             ELSE response'.status # 401 /\ response'.user = get_current_user(response'.token)
       /\ user_coins' # user_coins =>
             /\ Answers("add_coin") \/ Answers("remove_coin")
             /\ get_current_user(response'.token) # 0
             /\ response'.status = 200
       /\ \A op \in Anonymous : Answers(op) => response'.detail # "Could not validate credentials"
      ]_vars

\* An expired token of a registered user was sent to POST /users/coins for an
\* existing coin and was refused, while a watchlist row exists.
C12_Witness ==
    /\ response.op = "add_coin"
    /\ response.status = 401
    /\ response.token.signed
    /\ get_user_by_username(response.token.sub) # 0
    /\ response.arg \in DOMAIN coins
    /\ \E p \in DOMAIN user_coins : user_coins[p] > 0

\* C13: every step keeps every row of price_history at its place with its
\* coin, price and timestamp; a step that changes price_history is the
\* add_price of a sync and adds exactly one row at the end.
C13_LedgerAppendOnly ==
    [][/\ Len(price_history') >= Len(price_history)
       /\ \A r \in DOMAIN price_history : price_history'[r] = price_history[r]
       /\ price_history' # price_history =>
             /\ \E w \in Workers : pc[w] = "upd_add" /\ pc'[w] # "upd_add"
             /\ Len(price_history') = Len(price_history) + 1
      ]_vars

\* Two observations of one coin at different times are in the ledger, a user
\* is registered and tracks the coin.
C13_Witness ==
    /\ Len(price_history) >= 2
    /\ price_history[1].coin_id = price_history[2].coin_id
    /\ price_history[1].timestamp < price_history[2].timestamp
    /\ \E p \in DOMAIN user_coins : user_coins[p] > 0 /\ p[2] = price_history[1].coin_id

\* C14: with syncs interleaved at their database statements, every POST
\* /update that the feed answers 200 is answered 200 with one entry for each
\* coin the mapping prices, and no two rows of coins have the same name.
C14_ConcurrentUpsert ==
    /\ response.op = "update" /\ response.arg.feed.kind = "ok" =>
          /\ response.status = 200
          /\ Count(response) = Len(PricedCoins(response.arg.feed.prices))
    /\ \A i, j \in DOMAIN coins : i # j => coins[i].name # coins[j].name

\* C15: in every state no two rows of users have the same username or the
\* same email, no two rows of coins have the same name or the same symbol,
\* and the coin_id of every row of price_history is the id of a row of coins.
C15_StoreInvariants ==
    /\ \A i, j \in DOMAIN users :
          i # j => users[i].username # users[j].username /\ users[i].email # users[j].email
    /\ \A i, j \in DOMAIN coins :
          i # j => coins[i].name # coins[j].name /\ coins[i].symbol # coins[j].symbol
    /\ \A r \in DOMAIN price_history : price_history[r].coin_id \in DOMAIN coins

\* Two users are registered, the ledger has a row, and a sync that lost the
\* race for creating the coin was refused by the unique index.
C15_Witness ==
    /\ Len(users) = 2
    /\ Len(coins) >= 1
    /\ Len(price_history) >= 1
    /\ response.op = "update"
    /\ response.status = 500

\* C16: a step that answers an add or a remove of an authenticated user,
\* with any status, leaves users, coins and price_history as they were and
\* leaves the number of user_coins rows of every pair other than the caller
\* and the coin of the request as it was; a step of an add or a remove that
\* does not answer yet writes nothing.
C16_WatchlistFrame ==
    [][/\ (Answers("add_coin") \/ Answers("remove_coin")) /\ response'.user # 0 =>
             /\ users' = users
             /\ coins' = coins
             /\ price_history' = price_history
             /\ \A u \in DOMAIN users, c \in DOMAIN coins :
                   <<u, c>> # <<response'.user, response'.arg>> => Rows(u, c)' = Rows(u, c)
       /\ \A w \in Workers :
             pc[w] = "idle" /\ pc'[w] \in {"add_commit", "remove_commit"} => db' = db
      ]_vars

\* A user's remove of a coin was answered 200 and deleted the row, while the
\* user tracks another coin and another user tracks the removed coin.
C16_Witness ==
    /\ response.op = "remove_coin"
    /\ response.status = 200
    /\ Rows(response.user, response.arg) = 0
    /\ \E c \in DOMAIN coins : c # response.arg /\ Rows(response.user, c) > 0
    /\ \E u \in DOMAIN users : u # response.user /\ Rows(u, response.arg) > 0

====
